---- MODULE Spec2Model ----
(***************************************************************************)
(* smcPrime: deterministic primality testing for 32-bit and 64-bit         *)
(* unsigned integers (smcprime.h) and its TypeScript port (smcprime.ts).   *)
(*                                                                         *)
(* TLC's integers are 32-bit, so the machine words of the program are      *)
(* modelled as multi-limb numbers: a number is a sequence of limbs in      *)
(* 0..Radix-1, least significant limb first.  A uint64_t (and a uint32_t   *)
(* held in a 64-bit register) is a sequence of exactly five limbs whose    *)
(* value is below 2^64; a __uint128_t is a sequence of ten limbs; a        *)
(* JavaScript BigInt is a sequence of any length.                          *)
(***************************************************************************)
EXTENDS Integers, Sequences, FiniteSets, TLC

(***************************************************************************)
(* Multi-limb arithmetic                                                   *)
(***************************************************************************)

\* 2^13: the product of two limbs and the sum of 31 such products fit an int
Radix == 2 ^ 13
\* limb 5 of a 64-bit word holds bits 52..63
TopLimb64 == 2 ^ 12
\* limb 3 of a 32-bit value holds bits 26..31
TopLimb32 == 2 ^ 6

Limb(a, i) == IF i >= 1 /\ i <= Len(a) THEN a[i] ELSE 0

RECURSIVE Zeros(_)
Zeros(k) == IF k <= 0 THEN <<>> ELSE <<0>> \o Zeros(k - 1)

RECURSIVE Strip(_)
Strip(a) ==
    IF Len(a) > 0 /\ a[Len(a)] = 0 THEN Strip(SubSeq(a, 1, Len(a) - 1)) ELSE a

\* value equality of two numbers of any length
EqN(a, b) == Strip(a) = Strip(b)

IsZero(a) == \A i \in 1..Len(a) : a[i] = 0

RECURSIVE LtFrom(_, _, _)
LtFrom(a, b, i) ==
    IF i = 0 THEN FALSE
    ELSE IF Limb(a, i) # Limb(b, i) THEN Limb(a, i) < Limb(b, i)
    ELSE LtFrom(a, b, i - 1)

\* a < b
Lt(a, b) == LtFrom(a, b, IF Len(a) > Len(b) THEN Len(a) ELSE Len(b))
Le(a, b) == ~Lt(b, a)

RECURSIVE AddC(_, _, _, _, _)
AddC(a, b, i, k, c) ==
    IF i > k THEN <<c>>
    ELSE LET s == Limb(a, i) + Limb(b, i) + c
         IN <<s % Radix>> \o AddC(a, b, i + 1, k, s \div Radix)

\* a + b, exact (one limb longer than the longer operand)
Add(a, b) == AddC(a, b, 1, IF Len(a) > Len(b) THEN Len(a) ELSE Len(b), 0)

RECURSIVE SubB(_, _, _, _)
SubB(a, b, i, bw) ==
    IF i > Len(a) THEN <<>>
    ELSE LET s == a[i] - Limb(b, i) - bw
         IN IF s < 0 THEN <<s + Radix>> \o SubB(a, b, i + 1, 1)
                     ELSE <<s>> \o SubB(a, b, i + 1, 0)

\* a - b for a >= b (Len(a) limbs)
Sub(a, b) == SubB(a, b, 1, 0)

RECURSIVE MulSmallC(_, _, _, _)
MulSmallC(a, k, i, c) ==
    IF i > Len(a) THEN <<c>>
    ELSE LET s == a[i] * k + c
         IN <<s % Radix>> \o MulSmallC(a, k, i + 1, s \div Radix)

\* a * k for a single limb k
MulSmall(a, k) == MulSmallC(a, k, 1, 0)

RECURSIVE ColSum(_, _, _, _, _, _)
ColSum(a, b, k, i, hi, acc) ==
    IF i > hi THEN acc
    ELSE ColSum(a, b, k, i + 1, hi, acc + a[i] * b[k + 1 - i])

RECURSIVE MulCols(_, _, _, _)
MulCols(a, b, k, c) ==
    IF k > Len(a) + Len(b) - 1 THEN <<c>>
    ELSE LET lo == IF k > Len(b) THEN k + 1 - Len(b) ELSE 1
             hi == IF k < Len(a) THEN k ELSE Len(a)
             s  == ColSum(a, b, k, lo, hi, c)
         IN <<s % Radix>> \o MulCols(a, b, k + 1, s \div Radix)

\* a * b, exact, for operands of any length (schoolbook, by columns)
MulN(a, b) == IF Len(a) = 0 \/ Len(b) = 0 THEN <<0>> ELSE MulCols(a, b, 1, 0)

\* a * b, exact, for two five-limb words: the ten-limb 128-bit product
Mul64(a, b) ==
    LET s1 == a[1] * b[1]
        s2 == a[1] * b[2] + a[2] * b[1] + (s1 \div Radix)
        s3 == a[1] * b[3] + a[2] * b[2] + a[3] * b[1] + (s2 \div Radix)
        s4 == a[1] * b[4] + a[2] * b[3] + a[3] * b[2] + a[4] * b[1] + (s3 \div Radix)
        s5 == a[1] * b[5] + a[2] * b[4] + a[3] * b[3] + a[4] * b[2] + a[5] * b[1]
              + (s4 \div Radix)
        s6 == a[2] * b[5] + a[3] * b[4] + a[4] * b[3] + a[5] * b[2] + (s5 \div Radix)
        s7 == a[3] * b[5] + a[4] * b[4] + a[5] * b[3] + (s6 \div Radix)
        s8 == a[4] * b[5] + a[5] * b[4] + (s7 \div Radix)
        s9 == a[5] * b[5] + (s8 \div Radix)
    IN <<s1 % Radix, s2 % Radix, s3 % Radix, s4 % Radix, s5 % Radix,
         s6 % Radix, s7 % Radix, s8 % Radix, s9 % Radix, s9 \div Radix>>

RECURSIVE ShiftRightFrom(_, _, _, _)
\* limbs j.. of a, shifted right by r bits
ShiftRightFrom(a, j, lo, hi) ==
    IF j > Len(a) THEN <<>>
    ELSE <<(a[j] \div lo) + (Limb(a, j + 1) % lo) * hi>> \o ShiftRightFrom(a, j + 1, lo, hi)

\* floor(a / 2^bits)
ShiftRight(a, bits) ==
    ShiftRightFrom(a, (bits \div 13) + 1, 2 ^ (bits % 13), 2 ^ (13 - (bits % 13)))

\* 2^bits
Pow2(bits) == Zeros(bits \div 13) \o <<2 ^ (bits % 13)>>

\* a * 2^bits, exact
ShiftLeft(a, bits) == MulN(a, Pow2(bits))

RECURSIVE NormShift(_)
NormShift(v) == IF v >= Radix \div 2 THEN 0 ELSE 1 + NormShift(2 * v)

RECURSIVE Reduce1(_, _, _)
\* r - q*v for the largest q <= qhat with q*v <= r
Reduce1(r, v, qhat) ==
    LET t == MulSmall(v, qhat)
    IN IF Lt(r, t) THEN Reduce1(r, v, qhat - 1) ELSE Strip(Sub(r, t))

RECURSIVE DivLoop(_, _, _, _)
\* long division by limbs, most significant limb of u first; r < v throughout
DivLoop(u, v, i, r) ==
    IF Len(r) >= 0 /\ i = 0 THEN r
    ELSE LET r1 == Strip(<<u[i]>> \o r)
             L  == Len(v)
             q0 == (Limb(r1, L + 1) * Radix + Limb(r1, L)) \div v[L]
             qhat == IF q0 > Radix - 1 THEN Radix - 1 ELSE q0
         IN DivLoop(u, v, i - 1, IF Lt(r1, v) THEN r1 ELSE Reduce1(r1, v, qhat))

\* a mod n for n > 0: x mod n = ((x * 2^s) mod (n * 2^s)) / 2^s, with s chosen
\* so that the top limb of n * 2^s is at least Radix/2 (then the quotient
\* estimate qhat is at most 2 too large)
Mod(a, n) ==
    LET nn == Strip(n)
        s  == NormShift(nn[Len(nn)])
        v  == Strip(ShiftLeft(nn, s))
        u  == Strip(ShiftLeft(a, s))
    IN ShiftRight(DivLoop(u, v, Len(u), <<>>), s)

\* the number with value v, for an int v
Small(v) == <<v % Radix, (v \div Radix) % Radix, v \div (Radix * Radix)>>

RECURSIVE ToIntFrom(_, _)
ToIntFrom(a, i) == IF i > Len(a) THEN 0 ELSE a[i] + Radix * ToIntFrom(a, i + 1)
\* the int value of a number below 2^31
ToInt(a) == ToIntFrom(Strip(a), 1)
FitsInt(a) == Len(Strip(a)) <= 2 \/ (Len(Strip(a)) = 3 /\ a[3] < 32)

RECURSIVE DecFrom(_, _, _)
DecFrom(ds, i, acc) ==
    IF Len(acc) >= 0 /\ i > Len(ds) THEN acc
    ELSE DecFrom(ds, i + 1, Strip(Add(MulSmall(acc, 10), <<ds[i]>>)))
\* the number written in decimal with the digits ds
Dec(ds) == DecFrom(ds, 1, <<>>)

RECURSIVE HexFrom(_, _, _)
HexFrom(bs, i, acc) ==
    IF Len(acc) >= 0 /\ i > Len(bs) THEN acc
    ELSE HexFrom(bs, i + 1, Strip(Add(MulSmall(acc, 256), <<bs[i]>>)))
\* the number written in hexadecimal with the bytes bs, most significant first
Hex(bs) == HexFrom(bs, 1, <<>>)

(***************************************************************************)
(* uint64_t / uint32_t operations of C (wrapping)                          *)
(***************************************************************************)

\* (uint64_t) a
U64(a) == <<Limb(a, 1), Limb(a, 2), Limb(a, 3), Limb(a, 4), Limb(a, 5) % TopLimb64>>
\* (uint32_t) a, held in a word
U32(a) == <<Limb(a, 1), Limb(a, 2), Limb(a, 3) % TopLimb32, 0, 0>>
\* a word from an int
W(v) == U64(Small(v))
\* C evaluates the operands of an operator before it applies it: the
\* operators on words below bind their operands to values first
\* a >> 64 for a 128-bit a
Hi64(a) == CHOOSE r \in {U64(ShiftRight(x, 64)) : x \in {a}} : TRUE
\* a >> 32, a << 32, a >> 1 for a 64-bit a
Shr32(a) == CHOOSE r \in {U64(ShiftRight(x, 32)) : x \in {a}} : TRUE
Shl32(a) == CHOOSE r \in {U64(ShiftLeft(x, 32)) : x \in {a}} : TRUE
Shr1(a) == CHOOSE r \in {U64(ShiftRight(x, 1)) : x \in {a}} : TRUE
\* a + b, a - b, a * b in uint64_t
AddW(a, b) == CHOOSE r \in {U64(Add(x, y)) : x \in {a}, y \in {b}} : TRUE
SubW(a, b) == CHOOSE r \in {U64(Sub(Add(x, Pow2(64)), y)) : x \in {a}, y \in {b}} : TRUE
MulW(a, b) == CHOOSE r \in {U64(Mul64(x, y)) : x \in {a}, y \in {b}} : TRUE
\* a % b in uint64_t
ModW(a, b) == CHOOSE r \in {U64(Mod(x, y)) : x \in {a}, y \in {b}} : TRUE
\* a & 1
IsOdd(a) == a[1] % 2 = 1
\* a ^ 2
Xor2(a) == <<IF (a[1] \div 2) % 2 = 1 THEN a[1] - 2 ELSE a[1] + 2, a[2], a[3], a[4], a[5]>>

(***************************************************************************)
(* Loops.  A loop of the program is the repeated application of its body   *)
(* to the tuple of its local variables; a body leaves the tuple unchanged  *)
(* once the loop has ended, so a loop of at most k iterations is k         *)
(* applications of its body.                                                *)
(***************************************************************************)

\* F applied to the value of x
Let(F(_), x) == CHOOSE r \in {F(y) : y \in {x}} : TRUE

RECURSIVE Repeat(_, _, _)
\* F applied k times to x (the applications are split in two halves, the
\* second made on the value of the first)
Repeat(F(_), x, k) ==
    IF k = 0 THEN x
    ELSE IF k = 1 THEN CHOOSE r \in {F(y) : y \in {x}} : TRUE
    ELSE CHOOSE r \in {Repeat(F, y, k - (k \div 2)) :
                          y \in {Repeat(F, x, k \div 2)}} : TRUE

(***************************************************************************)
(* State                                                                   *)
(***************************************************************************)

\* int128: defined(__SIZEOF_INT128__) in this build of smcprime.h
\* fn, arg, aux: the function called, its first argument and its other ones
\* cand, iter: the variable n of a running navigation scan and the number of
\*             primality tests the scan has made
\* ret: the return value;  pc: "idle" before the call, "loop" in a scan, "done"
VARIABLES int128, fn, arg, aux, cand, iter, ret, pc

vars == <<int128, fn, arg, aux, cand, iter, ret, pc>>

(***************************************************************************)
(* smcprime.h: 32-bit primality testing                                    *)
(***************************************************************************)

smc_mulmod32(a, b, m) == U32(ModW(MulW(a, b), m))

\* while (b) { ... } of smc_powmod32 on st = <<r, a, b>>
smc_powmod32_body(st, m) ==
    IF IsZero(st[3]) THEN st
    ELSE LET r1 == IF IsOdd(st[3]) THEN smc_mulmod32(st[1], st[2], m) ELSE st[1]
             b1 == Shr1(st[3])
             a1 == IF ~IsZero(b1) THEN smc_mulmod32(st[2], st[2], m) ELSE st[2]
         IN <<r1, a1, b1>>

smc_powmod32(a, b, m) ==
    LET Body(st) == smc_powmod32_body(st, m)
    IN Repeat(Body, <<W(1), ModW(a, m), b>>, 32)[1]

\* while ((d & 1) == 0) { d >>= 1; s++; } on st = <<d, s>>, for d > 0
OddPart_body(st) == IF IsOdd(st[1]) THEN st ELSE <<Shr1(st[1]), st[2] + 1>>

OddPart(d) == Repeat(OddPart_body, <<d, 0>>, 64)

\* for (r = 1; r < s; r++) { ... } of smc_sprp32 on st = <<x, r, returned, value>>
smc_sprp32_body(st, s, n) ==
    IF st[3] \/ ~(st[2] < s) THEN st
    ELSE Let(LAMBDA x1 :
                 IF x1 = U32(SubW(n, W(1))) THEN <<x1, st[2], TRUE, TRUE>>
                 ELSE IF x1 = W(1) THEN <<x1, st[2], TRUE, FALSE>>
                 ELSE <<x1, st[2] + 1, FALSE, FALSE>>,
             smc_mulmod32(st[1], st[1], n))

\* smc_sprp32 from the point where d, s and x are computed
smc_sprp32_tail(n, s, x) ==
    LET Body(st) == smc_sprp32_body(st, s, n)
    IN IF x = W(1) \/ x = U32(SubW(n, W(1))) THEN TRUE
       ELSE Repeat(Body, <<x, 1, FALSE, FALSE>>, 32)[4]

smc_sprp32(n, a) ==
    IF IsZero(ModW(a, n)) THEN TRUE
    ELSE Let(LAMBDA ds : Let(LAMBDA x : smc_sprp32_tail(n, ds[2], x),
                             smc_powmod32(a, ds[1], n)),
             OddPart(U32(SubW(n, W(1)))))

\* 3215031751
SpecialPseudoprime == U64(Dec(<<3, 2, 1, 5, 0, 3, 1, 7, 5, 1>>))

\* smc_is_prime32 with 'if (n < 10) return true' for 'if (n < 9) return true'
smc_is_prime32_below10(n) ==
    IF Lt(n, W(2)) THEN FALSE
    ELSE IF n = W(2) THEN TRUE
    ELSE IF ~IsOdd(n) THEN FALSE
    ELSE IF Lt(n, W(10)) THEN TRUE
    ELSE IF IsZero(ModW(n, W(3))) THEN FALSE
    ELSE IF IsZero(ModW(n, W(5))) THEN FALSE
    ELSE IF IsZero(ModW(n, W(7))) THEN FALSE
    ELSE IF n = SpecialPseudoprime THEN FALSE
    ELSE smc_sprp32(n, W(2)) /\ smc_sprp32(n, W(7)) /\ smc_sprp32(n, W(61))

\* smc_is_prime32 with 'return true' at n == 3215031751
smc_is_prime32_special(n) ==
    IF Lt(n, W(2)) THEN FALSE
    ELSE IF n = W(2) THEN TRUE
    ELSE IF ~IsOdd(n) THEN FALSE
    ELSE IF Lt(n, W(9)) THEN TRUE
    ELSE IF IsZero(ModW(n, W(3))) THEN FALSE
    ELSE IF IsZero(ModW(n, W(5))) THEN FALSE
    ELSE IF IsZero(ModW(n, W(7))) THEN FALSE
    ELSE IF n = SpecialPseudoprime THEN TRUE
    ELSE smc_sprp32(n, W(2)) /\ smc_sprp32(n, W(7)) /\ smc_sprp32(n, W(61))

smc_is_prime32(n) ==
    IF Lt(n, W(2)) THEN FALSE
    ELSE IF n = W(2) THEN TRUE
    ELSE IF ~IsOdd(n) THEN FALSE
    ELSE IF Lt(n, W(9)) THEN TRUE
    ELSE IF IsZero(ModW(n, W(3))) THEN FALSE
    ELSE IF IsZero(ModW(n, W(5))) THEN FALSE
    ELSE IF IsZero(ModW(n, W(7))) THEN FALSE
    ELSE IF n = SpecialPseudoprime THEN FALSE
    ELSE smc_sprp32(n, W(2)) /\ smc_sprp32(n, W(7)) /\ smc_sprp32(n, W(61))

(***************************************************************************)
(* smcprime.h: 64-bit primality testing (Montgomery arithmetic)            *)
(***************************************************************************)

\* prime inverses mod 2^64 for trial division (primes 3 to 331)
RECURSIVE HexEach(_, _)
\* the numbers written in hexadecimal by the rows of t
HexEach(t, acc) ==
    IF Len(acc) = Len(t) THEN acc
    ELSE HexEach(t, Append(acc, Hex(t[Len(acc) + 1])))

SMC_PRIME_INV64 == HexEach(<<
    <<\hAA, \hAA, \hAA, \hAA, \hAA, \hAA, \hAA, \hAB>>,
    <<\hCC, \hCC, \hCC, \hCC, \hCC, \hCC, \hCC, \hCD>>,
    <<\h6D, \hB6, \hDB, \h6D, \hB6, \hDB, \h6D, \hB7>>,
    <<\h2E, \h8B, \hA2, \hE8, \hBA, \h2E, \h8B, \hA3>>,
    <<\h4E, \hC4, \hEC, \h4E, \hC4, \hEC, \h4E, \hC5>>,
    <<\hF0, \hF0, \hF0, \hF0, \hF0, \hF0, \hF0, \hF1>>,
    <<\h86, \hBC, \hA1, \hAF, \h28, \h6B, \hCA, \h1B>>,
    <<\hD3, \h7A, \h6F, \h4D, \hE9, \hBD, \h37, \hA7>>,
    <<\h34, \hF7, \h2C, \h23, \h4F, \h72, \hC2, \h35>>,
    <<\hEF, \h7B, \hDE, \hF7, \hBD, \hEF, \h7B, \hDF>>,
    <<\h14, \hC1, \hBA, \hCF, \h91, \h4C, \h1B, \hAD>>,
    <<\h8F, \h9C, \h18, \hF9, \hC1, \h8F, \h9C, \h19>>,
    <<\h82, \hFA, \h0B, \hE8, \h2F, \hA0, \hBE, \h83>>,
    <<\h51, \hB3, \hBE, \hA3, \h67, \h7D, \h46, \hCF>>,
    <<\h21, \hCF, \hB2, \hB7, \h8C, \h13, \h52, \h1D>>,
    <<\hCB, \hEE, \hA4, \hE1, \hA0, \h8A, \hD8, \hF3>>,
    <<\h4F, \hBC, \hDA, \h3A, \hC1, \h0C, \h97, \h15>>,
    <<\hF0, \hB7, \h67, \h2A, \h07, \hA4, \h4C, \h6B>>,
    <<\h19, \h3D, \h4B, \hB7, \hE3, \h27, \hA9, \h77>>,
    <<\h7E, \h3F, \h1F, \h8F, \hC7, \hE3, \hF1, \hF9>>,
    <<\h9B, \h8B, \h57, \h7E, \h61, \h37, \h16, \hAF>>,
    <<\hA3, \h78, \h4A, \h06, \h2B, \h2E, \h43, \hDB>>,
    <<\hF4, \h7E, \h8F, \hD1, \hFA, \h3F, \h47, \hE9>>,
    <<\hA3, \hA0, \hFD, \h5C, \h5F, \h02, \hA3, \hA1>>,
    <<\h3A, \h4C, \h0A, \h23, \h7C, \h32, \hB1, \h6D>>,
    <<\hDA, \hB7, \hEC, \h1D, \hD3, \h43, \h1B, \h57>>,
    <<\h77, \hA0, \h4C, \h8F, \h8D, \h28, \hAC, \h43>>,
    <<\hA6, \hC0, \h96, \h4F, \hDA, \h6C, \h09, \h65>>,
    <<\h90, \hFD, \hBC, \h09, \h0F, \hDB, \hC0, \h91>>,
    <<\h7E, \hFD, \hFB, \hF7, \hEF, \hDF, \hBF, \h7F>>,
    <<\h03, \hE8, \h8C, \hB3, \hC9, \h48, \h4E, \h2B>>,
    <<\hE2, \h1A, \h29, \h1C, \h07, \h79, \h75, \hB9>>,
    <<\h3A, \hEF, \h6C, \hA9, \h70, \h58, \h67, \h23>>,
    <<\hDF, \h5B, \h0F, \h76, \h8C, \hE2, \hCA, \hBD>>,
    <<\h6F, \hE4, \hDF, \hC9, \hBF, \h93, \h7F, \h27>>,
    <<\h5B, \h4F, \hE5, \hE9, \h2C, \h06, \h85, \hB5>>,
    <<\h1F, \h69, \h3A, \h1C, \h45, \h1A, \hB3, \h0B>>,
    <<\h8D, \h07, \hAA, \h27, \hDB, \h35, \hA7, \h17>>,
    <<\h88, \h23, \h83, \hB3, \h0D, \h51, \h63, \h25>>,
    <<\hED, \h68, \h66, \hF8, \hD9, \h62, \hAE, \h7B>>,
    <<\h34, \h54, \hDC, \hA4, \h10, \hF8, \hED, \h9D>>,
    <<\h1D, \h7C, \hA6, \h32, \hEE, \h93, \h6F, \h3F>>,
    <<\h70, \hBF, \h01, \h53, \h90, \h94, \h8F, \h41>>,
    <<\hC9, \h6B, \hDB, \h9D, \h3D, \h13, \h7E, \h0D>>,
    <<\h26, \h97, \hCC, \h8A, \hEF, \h46, \hC0, \hF7>>,
    <<\hC0, \hE8, \hF2, \hA7, \h6E, \h68, \h57, \h5B>>,
    <<\h68, \h77, \h63, \hDF, \hDB, \h43, \hBB, \h1F>>,
    <<\h1B, \h10, \hEA, \h92, \h9B, \hA1, \h44, \hCB>>,
    <<\h1D, \h10, \hC4, \hC0, \h47, \h8B, \hBC, \hED>>,
    <<\h63, \hFB, \h9A, \hEB, \h1F, \hDC, \hD7, \h59>>,
    <<\h64, \hAF, \hAA, \h4F, \h43, \h7B, \h2E, \h0F>>,
    <<\hF0, \h10, \hFE, \hF0, \h10, \hFE, \hF0, \h11>>,
    <<\h28, \hCB, \hFB, \hEB, \h9A, \h02, \h0A, \h33>>,
    <<\hFF, \h00, \hFF, \h00, \hFF, \h00, \hFF, \h01>>,
    <<\hD6, \h24, \hFD, \h14, \h70, \hE9, \h9C, \hB7>>,
    <<\h8F, \hB3, \hDD, \hBD, \h62, \h05, \hB5, \hC5>>,
    <<\hD5, \h7D, \hA3, \h6C, \hA2, \h7A, \hCD, \hEF>>,
    <<\hEE, \h70, \hC0, \h3B, \h25, \hE4, \h46, \h3D>>,
    <<\hC5, \hB1, \hA6, \hB8, \h07, \h49, \hCB, \h29>>,
    <<\h47, \h76, \h80, \h73, \hC9, \hB9, \h71, \h13>>,
    <<\h25, \h91, \hE9, \h48, \h84, \hCE, \h32, \hAD>>,
    <<\hF0, \h28, \h06, \hAB, \hC7, \h4B, \hE1, \hFB>>,
    <<\h7E, \hC3, \hE8, \hF3, \hA7, \h19, \h84, \h87>>,
    <<\h58, \h55, \h0F, \h8A, \h39, \h40, \h9D, \h09>>,
    <<\hEC, \h9E, \h48, \hAE, \h6F, \h71, \hDE, \h15>>,
    <<\h2F, \hF3, \hA0, \h18, \hBF, \hCE, \h80, \h63>>
>>, <<>>)

SMC_NUM_PRIME_INV64 == 66

\* est = (2 - est * n) * est;
smc_mont_inv64_step(est, n) == MulW(SubW(W(2), MulW(est, n)), est)

\* smc_mont_inv64 with three steps for four
smc_mont_inv64_three(n) ==
    LET Step(est) == smc_mont_inv64_step(est, n)
    IN Repeat(Step, Xor2(MulW(W(3), n)), 3)

smc_mont_inv64(n) ==
    LET Step(est) == smc_mont_inv64_step(est, n)
    IN Repeat(Step, Xor2(MulW(W(3), n)), 4)

\* t of smc_mont_reduce64, the high word of m * n: by __uint128_t, or by
\* four 32x32 partial products p = <<p0, p1, p2, p3>>
MulHi64_sum(p) ==
    AddW(AddW(AddW(p[4], Shr32(p[2])), Shr32(p[3])),
         Shr32(AddW(AddW(Shr32(p[1]), U32(p[2])), U32(p[3]))))

\* the partial products of a and b
PartialProducts(a, b) ==
    Let(LAMBDA h : <<MulW(h[1], h[3]), MulW(h[1], h[4]),
                     MulW(h[2], h[3]), MulW(h[2], h[4])>>,
        <<U32(a), Shr32(a), U32(b), Shr32(b)>>)

MulHi64(m, n) ==
    IF int128 THEN Hi64(Mul64(m, n))
    ELSE Let(MulHi64_sum, PartialProducts(m, n))

smc_mont_reduce64(x_lo, x_hi, n, n_inv) ==
    Let(LAMBDA t : IF Lt(x_hi, t) THEN AddW(SubW(x_hi, t), n) ELSE SubW(x_hi, t),
        MulHi64(MulW(x_lo, n_inv), n))

\* cy and hi of the fallback of smc_mont_mul64, from the partial products
\* and lo
Product64_hi(p, lo) ==
    AddW(AddW(AddW(p[4], Shr32(p[2])), Shr32(p[3])),
         W((IF Lt(lo, p[1]) THEN 1 ELSE 0)
           + (IF Le(Pow2(32), AddW(AddW(Shr32(p[1]), U32(p[2])), U32(p[3])))
              THEN 1 ELSE 0)))

Product64_sum(p) ==
    Let(LAMBDA lo : <<lo, Product64_hi(p, lo)>>,
        AddW(AddW(p[1], Shl32(p[2])), Shl32(p[3])))

\* <<lo, hi>> of smc_mont_mul64, the halves of a * b: by __uint128_t, or by
\* four 32x32 partial products
Product64(a, b) ==
    IF int128 THEN Let(LAMBDA prod : <<U64(prod), Hi64(prod)>>, Mul64(a, b))
    ELSE Let(Product64_sum, PartialProducts(a, b))

smc_mont_mul64(a, b, n, n_inv) ==
    Let(LAMBDA prod : smc_mont_reduce64(prod[1], prod[2], n, n_inv),
        Product64(a, b))

\* for (i = 0; i < 64; i++) { r <<= 1; if (r >= n) r -= n; }
smc_to_mont64_body(r, n) ==
    LET r1 == U64(ShiftLeft(r, 1))
    IN IF Le(n, r1) THEN SubW(r1, n) ELSE r1

smc_to_mont64(x, n) ==
    IF int128 THEN U64(Mod(ShiftLeft(x, 64), n))
    ELSE LET Body(r) == smc_to_mont64_body(r, n)
         IN Repeat(Body, ModW(x, n), 64)

\* UINT64_MAX
UINT64_MAX == SubW(W(0), W(1))

smc_mont_one64(n) == AddW(ModW(UINT64_MAX, n), W(1))

\* while (exp > 0) { ... } of smc_mont_pow64 on st = <<result, base, exp>>
smc_mont_pow64_body(st, n, n_inv) ==
    IF IsZero(st[3]) THEN st
    ELSE <<IF IsOdd(st[3]) THEN smc_mont_mul64(st[1], st[2], n, n_inv) ELSE st[1],
           smc_mont_mul64(st[2], st[2], n, n_inv),
           Shr1(st[3])>>

smc_mont_pow64(base, exp, n, n_inv, one) ==
    LET Body(st) == smc_mont_pow64_body(st, n, n_inv)
    IN Repeat(Body, <<one, base, exp>>, 64)[1]

\* for (r = 1; r < s; r++) { ... } of smc_mont_sprp64
\* on st = <<x, r, returned, value>>
smc_mont_sprp64_body(st, s, n, n_inv, one, neg_one) ==
    IF st[3] \/ ~(st[2] < s) THEN st
    ELSE Let(LAMBDA x1 :
                 IF x1 = neg_one THEN <<x1, st[2], TRUE, TRUE>>
                 ELSE IF x1 = one THEN <<x1, st[2], TRUE, FALSE>>
                 ELSE <<x1, st[2] + 1, FALSE, FALSE>>,
             smc_mont_mul64(st[1], st[1], n, n_inv))

\* smc_mont_sprp64 from the point where d, s and a_mont are computed
smc_mont_sprp64_tail(n, n_inv, one, ds, a_mont) ==
    IF IsZero(a_mont) THEN TRUE
    ELSE Let(LAMBDA xs :
                 LET Body(st) == smc_mont_sprp64_body(st, ds[2], n, n_inv, one, xs[2])
                 IN IF xs[1] = one \/ xs[1] = xs[2] THEN TRUE
                    ELSE Repeat(Body, <<xs[1], 1, FALSE, FALSE>>, 64)[4],
             <<smc_mont_pow64(a_mont, ds[1], n, n_inv, one),
               Let(LAMBDA neg0 : IF Le(n, neg0) THEN SubW(neg0, n) ELSE neg0,
                   SubW(n, one))>>)

smc_mont_sprp64(n, a, n_inv, one) ==
    CHOOSE r \in {smc_mont_sprp64_tail(n, n_inv, one, ds, a_mont) :
                     ds \in {OddPart(SubW(n, W(1)))},
                     a_mont \in {smc_to_mont64(ModW(a, n), n)}} : TRUE

\* 55730344633563600: the limit of the prime-inverse trial division
TrialDivisionLimit == U64(Dec(<<5, 5, 7, 3, 0, 3, 4, 4, 6, 3, 3, 5, 6, 3, 6, 0, 0>>))

\* uint64_t prod = n * SMC_PRIME_INV64[i], with the entry after the i-th
TrialProduct_shifted(n, i) == MulW(n, SMC_PRIME_INV64[((i + 1) % SMC_NUM_PRIME_INV64) + 1])

\* uint64_t prod = n * SMC_PRIME_INV64[i];
TrialProduct(n, i) == MulW(n, SMC_PRIME_INV64[i + 1])

\* for (i = 0; i < SMC_NUM_PRIME_INV64; i++) { ... } of smc_is_prime64
\* on st = <<i, returned, value>>
TrialDivision_body(st, n) ==
    IF st[2] \/ ~(st[1] < SMC_NUM_PRIME_INV64) THEN st
    ELSE Let(LAMBDA prod : IF prod = W(1) THEN <<st[1], TRUE, TRUE>>
                           ELSE IF Lt(prod, n) THEN <<st[1], TRUE, FALSE>>
                           ELSE <<st[1] + 1, FALSE, FALSE>>,
             TrialProduct(n, st[1]))

TrialDivision(n) ==
    LET Body(st) == TrialDivision_body(st, n)
    IN Repeat(Body, <<0, FALSE, FALSE>>, SMC_NUM_PRIME_INV64)

\* the breakpoints of the witness ladder
Breakpoint1 == W(2047)
Breakpoint2 == W(1373653)
Breakpoint3 == W(25326001)
Breakpoint5 == U64(Dec(<<2, 1, 5, 2, 3, 0, 2, 8, 9, 8, 7, 4, 7>>))
Breakpoint6 == U64(Dec(<<3, 4, 7, 4, 7, 4, 9, 6, 6, 0, 3, 8, 3>>))
Breakpoint7 == U64(Dec(<<3, 4, 1, 5, 5, 0, 0, 7, 1, 7, 2, 8, 3, 2, 1>>))
Breakpoint9 == U64(Dec(<<3, 8, 2, 5, 1, 2, 3, 0, 5, 6, 5, 4, 6, 4, 1, 3, 0, 5, 1>>))

\* the witness ladder of smc_is_prime64: each rung is a base a and the
\* bound below which n is prime once it has passed the bases so far
\* (a bound of 0 where the source has no such return)
LadderBase == <<2, 3, 5, 7, 11, 13, 17, 19, 23, 29, 31, 37>>
\* LadderBound with 1373654 for 1373653
LadderBound_late ==
    <<Breakpoint1, AddW(Breakpoint2, W(1)), Breakpoint3, SpecialPseudoprime,
      Breakpoint5, Breakpoint6, Breakpoint7, W(0), Breakpoint9, W(0), W(0), W(0)>>

LadderBound ==
    <<Breakpoint1, Breakpoint2, Breakpoint3, SpecialPseudoprime, Breakpoint5,
      Breakpoint6, Breakpoint7, W(0), Breakpoint9, W(0), W(0), W(0)>>

\* one rung on st = <<i, returned, value>>:
\*   if (!smc_mont_sprp64(n, a, n_inv, one)) return false;
\*   if (n < bound) return true;
\*   if (n == 3215031751ULL) return false;      (after base 7 only)
WitnessLadder_body(st, n, n_inv, one) ==
    IF st[2] THEN st
    ELSE LET a == LadderBase[st[1] + 1]
             bound == LadderBound[st[1] + 1]
         IN IF ~smc_mont_sprp64(n, W(a), n_inv, one) THEN <<st[1] + 1, TRUE, FALSE>>
            ELSE IF Lt(n, bound) THEN <<st[1] + 1, TRUE, TRUE>>
            ELSE IF a = 7 /\ n = SpecialPseudoprime THEN <<st[1] + 1, TRUE, FALSE>>
            ELSE <<st[1] + 1, FALSE, FALSE>>

\* the Miller-Rabin part of smc_is_prime64
WitnessLadder_tail(n, n_inv, one) ==
    LET Body(st) == WitnessLadder_body(st, n, n_inv, one)
    IN Let(LAMBDA st : IF st[2] THEN st[3] ELSE TRUE,
           Repeat(Body, <<0, FALSE, FALSE>>, 12))

\* uint64_t n_inv = smc_mont_inv64(n); uint64_t one = smc_mont_one64(n);
WitnessLadder(n) ==
    CHOOSE r \in {WitnessLadder_tail(n, n_inv, one) :
                     n_inv \in {smc_mont_inv64(n)},
                     one \in {smc_mont_one64(n)}} : TRUE

\* the returns of smc_is_prime64 before the Montgomery setup, as
\* <<returned, value>>
EarlyReturn(n) ==
    IF Lt(n, W(2)) THEN <<TRUE, FALSE>>
    ELSE IF n = W(2) THEN <<TRUE, TRUE>>
    ELSE IF ~IsOdd(n) THEN <<TRUE, FALSE>>
    ELSE IF Lt(n, W(9)) THEN <<TRUE, TRUE>>
    ELSE IF Lt(n, TrialDivisionLimit)
         THEN Let(LAMBDA td : IF td[2] THEN <<TRUE, td[3]>>
                              ELSE IF Lt(n, W(109561)) THEN <<TRUE, TRUE>>
                              ELSE <<FALSE, FALSE>>,
                  TrialDivision(n))
    ELSE IF IsZero(ModW(n, W(3))) THEN <<TRUE, FALSE>>
    ELSE IF IsZero(ModW(n, W(5))) THEN <<TRUE, FALSE>>
    ELSE IF IsZero(ModW(n, W(7))) THEN <<TRUE, FALSE>>
    ELSE IF IsZero(ModW(n, W(11))) THEN <<TRUE, FALSE>>
    ELSE IF IsZero(ModW(n, W(13))) THEN <<TRUE, FALSE>>
    ELSE <<FALSE, FALSE>>

smc_is_prime64(n) ==
    Let(LAMBDA early : IF early[1] THEN early[2] ELSE WitnessLadder(n),
        EarlyReturn(n))

\* static const uint8_t witnesses[]
witnesses == <<2, 3, 5, 7, 11, 13, 17, 19, 23, 29, 31, 37>>

\* for (i = 0; i < 12; i++) { ... } of smc_is_prime64_wc on st = <<i, returned>>
smc_is_prime64_wc_body(st, n, n_inv, one) ==
    IF st[2] \/ ~(st[1] < 12) THEN st
    ELSE IF ~smc_mont_sprp64(n, W(witnesses[st[1] + 1]), n_inv, one)
         THEN <<st[1], TRUE>>
         ELSE <<st[1] + 1, FALSE>>

smc_is_prime64_wc_tail(n, n_inv, one) ==
    LET Body(st) == smc_is_prime64_wc_body(st, n, n_inv, one)
    IN ~Repeat(Body, <<0, FALSE>>, 12)[2]

smc_is_prime64_wc(n) ==
    IF Lt(n, W(2)) THEN FALSE
    ELSE IF n = W(2) THEN TRUE
    ELSE IF ~IsOdd(n) THEN FALSE
    ELSE IF Lt(n, W(9)) THEN TRUE
    ELSE IF n = SpecialPseudoprime THEN FALSE
    ELSE CHOOSE r \in {smc_is_prime64_wc_tail(n, n_inv, one) :
                          n_inv \in {smc_mont_inv64(n)},
                          one \in {smc_mont_one64(n)}} : TRUE

(***************************************************************************)
(* smcprime.ts: the TypeScript port.  Its values are BigInts: numbers of   *)
(* any size, held as limb sequences without leading zero limbs.            *)
(***************************************************************************)

\* BigInt operators (operands bound to values first, as for the C words)
BigAdd(a, b) == CHOOSE r \in {Strip(Add(x, y)) : x \in {a}, y \in {b}} : TRUE
\* a - b for a >= b
BigSub(a, b) == CHOOSE r \in {Strip(Sub(x, y)) : x \in {a}, y \in {b}} : TRUE
BigMul(a, b) == CHOOSE r \in {Strip(MulN(x, y)) : x \in {a}, y \in {b}} : TRUE
BigMod(a, b) == CHOOSE r \in {Strip(Mod(x, y)) : x \in {a}, y \in {b}} : TRUE
\* a >> 64n, a >> 1n
BigShr64(a) == CHOOSE r \in {Strip(ShiftRight(x, 64)) : x \in {a}} : TRUE
BigShr1(a) == CHOOSE r \in {Strip(ShiftRight(x, 1)) : x \in {a}} : TRUE
\* a & MASK64 for a >= 0
BigMask64(a) == CHOOSE r \in {Strip(U64(x)) : x \in {a}} : TRUE
\* (a - b) & MASK64 for 0 <= a < b <= a + 2^64: the two's complement of b - a
BigSubMask64(a, b) == BigMask64(BigSub(Pow2(64), BigSub(b, a)))
\* the BigInt of an int
Big(v) == Strip(Small(v))

MASK32 == Strip(U32(UINT64_MAX))
MASK64 == Strip(UINT64_MAX)

mulmod32(a, b, m) == BigMod(BigMul(a, b), m)

\* while (b > 0n) { ... } of powmod32 on st = <<r, a, b>>
powmod32_body(st, m) ==
    IF IsZero(st[3]) THEN st
    ELSE LET r1 == IF IsOdd(st[3]) THEN mulmod32(st[1], st[2], m) ELSE st[1]
             b1 == BigShr1(st[3])
             a1 == IF ~IsZero(b1) THEN mulmod32(st[2], st[2], m) ELSE st[2]
         IN <<r1, a1, b1>>

powmod32(a, b, m) ==
    LET Body(st) == powmod32_body(st, m)
    IN Repeat(Body, <<Big(1), BigMod(a, m), b>>, 64)[1]

\* while ((d & 1n) === 0n) { d >>= 1n; s++; } on st = <<d, s>>, for d > 0
BigOddPart_body(st) == IF IsOdd(st[1]) THEN st ELSE <<BigShr1(st[1]), st[2] + 1>>

BigOddPart(d) == Repeat(BigOddPart_body, <<d, 0>>, 64)

\* for (let r = 1n; r < s; r++) { ... } of sprp32 on st = <<x, r, returned, value>>
sprp32_body(st, s, n) ==
    IF st[3] \/ ~(st[2] < s) THEN st
    ELSE Let(LAMBDA x1 :
                 IF x1 = BigSub(n, Big(1)) THEN <<x1, st[2], TRUE, TRUE>>
                 ELSE IF x1 = Big(1) THEN <<x1, st[2], TRUE, FALSE>>
                 ELSE <<x1, st[2] + 1, FALSE, FALSE>>,
             mulmod32(st[1], st[1], n))

\* sprp32 from the point where d, s and x are computed
sprp32_tail(n, s, x) ==
    LET Body(st) == sprp32_body(st, s, n)
    IN IF x = Big(1) \/ x = BigSub(n, Big(1)) THEN TRUE
       ELSE Repeat(Body, <<x, 1, FALSE, FALSE>>, 64)[4]

sprp32(n, a) ==
    IF IsZero(BigMod(a, n)) THEN TRUE
    ELSE Let(LAMBDA ds : Let(LAMBDA x : sprp32_tail(n, ds[2], x),
                             powmod32(a, ds[1], n)),
             BigOddPart(BigSub(n, Big(1))))

isPrime32(bn) ==
    IF Lt(bn, Big(2)) THEN FALSE
    ELSE IF bn = Big(2) THEN TRUE
    ELSE IF ~IsOdd(bn) THEN FALSE
    ELSE IF Lt(bn, Big(9)) THEN TRUE
    ELSE IF IsZero(BigMod(bn, Big(3))) \/ IsZero(BigMod(bn, Big(5)))
            \/ IsZero(BigMod(bn, Big(7))) THEN FALSE
    ELSE IF bn = Strip(SpecialPseudoprime) THEN FALSE
    ELSE sprp32(bn, Big(2)) /\ sprp32(bn, Big(7)) /\ sprp32(bn, Big(61))

\* est = ((2n - est * n) * est) & MASK64, on est and n below 2^64
montInv64_step(est, n) == MulW(SubW(W(2), MulW(est, n)), est)

montInv64(n) ==
    LET Step(est) == montInv64_step(est, U64(n))
    IN Strip(Repeat(Step, Xor2(U64(BigMul(Big(3), n))), 4))

montReduce64(xLo, xHi, n, nInv) ==
    Let(LAMBDA t : IF Lt(xHi, t) THEN BigAdd(BigSubMask64(xHi, t), n)
                   ELSE BigSub(xHi, t),
        BigShr64(BigMul(BigMask64(BigMul(xLo, nInv)), n)))

montMul64(a, b, n, nInv) ==
    Let(LAMBDA prod : montReduce64(BigMask64(prod), BigShr64(prod), n, nInv),
        BigMul(a, b))

toMont64(x, n) == BigMod(BigMul(BigMod(x, n), Pow2(64)), n)

montOne64(n) == BigAdd(BigMod(MASK64, n), Big(1))

\* while (exp > 0n) { ... } of montPow64 on st = <<result, base, exp>>
montPow64_body(st, n, nInv) ==
    IF IsZero(st[3]) THEN st
    ELSE <<IF IsOdd(st[3]) THEN montMul64(st[1], st[2], n, nInv) ELSE st[1],
           montMul64(st[2], st[2], n, nInv),
           BigShr1(st[3])>>

montPow64(base, exp, n, nInv, one) ==
    LET Body(st) == montPow64_body(st, n, nInv)
    IN Repeat(Body, <<one, base, exp>>, 64)[1]

\* for (let r = 1n; r < s; r++) { ... } of montSprp64
\* on st = <<x, r, returned, value>>
montSprp64_body(st, s, n, nInv, one, negOne) ==
    IF st[3] \/ ~(st[2] < s) THEN st
    ELSE Let(LAMBDA x1 :
                 IF x1 = negOne THEN <<x1, st[2], TRUE, TRUE>>
                 ELSE IF x1 = one THEN <<x1, st[2], TRUE, FALSE>>
                 ELSE <<x1, st[2] + 1, FALSE, FALSE>>,
             montMul64(st[1], st[1], n, nInv))

\* montSprp64 from the point where d, s and aMont are computed
montSprp64_tail(n, nInv, one, ds, aMont) ==
    IF IsZero(aMont) THEN TRUE
    ELSE Let(LAMBDA xs :
                 LET Body(st) == montSprp64_body(st, ds[2], n, nInv, one, xs[2])
                 IN IF xs[1] = one \/ xs[1] = xs[2] THEN TRUE
                    ELSE Repeat(Body, <<xs[1], 1, FALSE, FALSE>>, 64)[4],
             <<montPow64(aMont, ds[1], n, nInv, one), BigSub(n, one)>>)

montSprp64(n, a, nInv, one) ==
    CHOOSE r \in {montSprp64_tail(n, nInv, one, ds, aMont) :
                     ds \in {BigOddPart(BigSub(n, Big(1)))},
                     aMont \in {toMont64(BigMod(a, n), n)}} : TRUE

\* for (const w of witnesses) { ... } of isPrime64 on st = <<i, returned>>
isPrime64_body(st, bn, nInv, one) ==
    IF st[2] \/ ~(st[1] < 12) THEN st
    ELSE IF ~montSprp64(bn, Big(witnesses[st[1] + 1]), nInv, one)
         THEN <<st[1], TRUE>>
         ELSE <<st[1] + 1, FALSE>>

isPrime64_tail(bn, nInv, one) ==
    LET Body(st) == isPrime64_body(st, bn, nInv, one)
    IN ~Repeat(Body, <<0, FALSE>>, 12)[2]

isPrime64(bn) ==
    IF Lt(bn, Big(2)) THEN FALSE
    ELSE IF bn = Big(2) THEN TRUE
    ELSE IF ~IsOdd(bn) THEN FALSE
    ELSE IF Lt(bn, Big(9)) THEN TRUE
    ELSE IF IsZero(BigMod(bn, Big(3))) \/ IsZero(BigMod(bn, Big(5)))
            \/ IsZero(BigMod(bn, Big(7))) THEN FALSE
    ELSE IF bn = Strip(SpecialPseudoprime) THEN FALSE
    ELSE IF Le(bn, MASK32) THEN isPrime32(bn)
    ELSE CHOOSE r \in {isPrime64_tail(bn, nInv, one) :
                          nInv \in {montInv64(bn)},
                          one \in {montOne64(bn)}} : TRUE

(***************************************************************************)
(* Reference definitions: what the results are compared with.  They use    *)
(* exact arithmetic on plain residues and none of the code above.          *)
(***************************************************************************)

\* an int v is prime: no d with 2 <= d, d * d <= v divides it (v < 2^31)
IsPrimeInt(v) ==
    v >= 2 /\ \A d \in 2..(IF v < 2 ^ 16 THEN 2 ^ 8 ELSE 46340) : d * d > v \/ v % d # 0

\* a^e mod n by squaring, on st = <<result, base, exp>>
PowMod_body(st, n) ==
    IF IsZero(st[3]) THEN st
    ELSE <<IF IsOdd(st[3]) THEN BigMod(BigMul(st[1], st[2]), n) ELSE st[1],
           BigMod(BigMul(st[2], st[2]), n),
           BigShr1(st[3])>>

\* a^e mod n for e < 2^64
PowMod(a, e, n) ==
    LET Body(st) == PowMod_body(st, n)
    IN Repeat(Body, <<BigMod(Big(1), n), BigMod(a, n), Strip(e)>>, 64)[1]

RECURSIVE Product(_, _)
\* the product of the numbers qs[i..]
Product(qs, i) == IF i > Len(qs) THEN Big(1) ELSE BigMul(qs[i], Product(qs, i + 1))

\* the product of the numbers of qs other than the copies of q
Cofactor(qs, q) == Product(SelectSeq(qs, LAMBDA x : x # q), 1)

\* the small prime factors of the composite numbers the scans meet above 2^31
FactorBase ==
    {3, 5, 7, 11, 13, 17, 19, 23, 29, 31, 37, 41,
     53, 61, 67, 71, 73, 97, 101, 103, 107, 109, 131, 151,
     163, 179, 191, 193, 199, 277, 281, 283, 313, 373, 379, 401,
     487, 557, 641, 727, 733, 757, 827, 929, 1049, 1303, 1319, 1499,
     1511, 2203, 2531, 3209, 4457, 6737, 6763, 6829, 7151, 9241, 9817, 10289,
     10463, 10847, 11071, 14843, 106861, 124367, 149491, 165479, 598643, 4185971, 6192419, 10670053,
     22558429, 139646831}

PrimeCertificates == <<
    <<U64(Dec(<<3, 2, 1, 5, 0, 3, 1, 7, 3, 3>>)), 2,
      <<W(2), W(2), W(3), W(3), W(11), W(8118767)>>>>,
    <<U64(Dec(<<3, 2, 1, 5, 0, 3, 1, 7, 4, 9>>)), 2,
      <<W(2), W(2), W(803757937)>>>>,
    <<U64(Dec(<<3, 2, 1, 5, 0, 3, 1, 7, 6, 7>>)), 5,
      <<W(2), W(10037), W(160159)>>>>,
    <<U64(Dec(<<3, 2, 1, 5, 0, 3, 1, 7, 7, 3>>)), 2,
      <<W(2), W(2), W(17), W(47279879)>>>>,
    <<U64(Dec(<<4, 2, 9, 4, 9, 6, 7, 2, 7, 9>>)), 7,
      <<W(2), W(7), W(17), W(18046081)>>>>,
    <<U64(Dec(<<4, 2, 9, 4, 9, 6, 7, 2, 9, 1>>)), 2,
      <<W(2), W(5), W(19), W(22605091)>>>>,
    <<U64(Dec(<<4, 2, 9, 4, 9, 6, 7, 3, 1, 1>>)), 3,
      <<W(2), W(3), W(3), W(5), W(131), W(364289)>>>>,
    <<U64(Dec(<<4, 2, 9, 5, 3, 6, 8, 6, 1, 3>>)), 2,
      <<W(2), W(2), W(10847), W(98999)>>>>,
    <<U64(Dec(<<4, 2, 9, 5, 3, 6, 8, 6, 2, 1>>)), 13,
      <<W(2), W(2), W(3), W(3), W(5), W(3137), W(7607)>>>>,
    <<U64(Dec(<<4, 2, 9, 5, 3, 6, 8, 6, 3, 9>>)), 3,
      <<W(2), W(3), W(3), W(11), W(21693781)>>>>,
    <<U64(Dec(<<4, 2, 9, 5, 3, 6, 8, 6, 6, 1>>)), 2,
      <<W(2), W(2), W(5), W(11), W(67), W(433), W(673)>>>>,
    <<U64(Dec(<<4, 2, 9, 5, 3, 6, 8, 6, 6, 3>>)), 3,
      <<W(2), W(3), W(13), W(55068829)>>>>,
    <<U64(Dec(<<4, 5, 2, 8, 5, 6, 4, 2, 5, 9>>)), 2,
      <<W(2), W(31), W(1091), W(66949)>>>>,
    <<U64(Dec(<<2, 7, 3, 4, 5, 1, 6, 1, 5, 2, 4, 3>>)), 2,
      <<W(2), W(3), W(13), W(83), W(4637), W(9109)>>>>,
    <<U64(Dec(<<7, 0, 1, 3, 6, 3, 5, 1, 1, 6, 2, 3>>)), 5,
      <<W(2), W(3697), W(94855763)>>>>,
    <<U64(Dec(<<2, 1, 5, 2, 3, 0, 2, 8, 9, 8, 7, 2, 9>>)), 34,
      <<W(2), W(2), W(2), W(3), W(2689), W(33350423)>>>>,
    <<U64(Dec(<<2, 1, 5, 2, 3, 0, 2, 8, 9, 8, 7, 7, 1>>)), 10,
      <<W(2), W(3), W(3), W(5), W(167), W(143200459)>>>>,
    <<U64(Dec(<<3, 4, 7, 4, 7, 4, 9, 6, 6, 0, 4, 0, 1>>)), 14,
      <<W(2), W(2), W(2), W(2), W(3), W(3), W(5), W(5), W(919), W(1050281)>>>>,
    <<U64(Dec(<<5, 5, 9, 4, 4, 7, 2, 6, 1, 7, 6, 4, 1>>)), 13,
      <<W(2), W(2), W(2), W(3), W(5), W(1427), W(2131), W(15331)>>>>,
    <<U64(Dec(<<5, 5, 7, 3, 0, 3, 4, 4, 6, 3, 3, 5, 6, 3, 5, 8, 1>>)), 2,
      <<W(2), W(2), W(5), W(29), W(137), U64(Dec(<<7, 0, 1, 3, 6, 3, 5, 1, 1, 6, 2, 3>>))>>>>,
    <<U64(Dec(<<2, 3, 0, 5, 8, 4, 3, 0, 0, 9, 2, 1, 3, 6, 9, 3, 9, 5, 1>>)), 37,
      <<W(2), W(3), W(3), W(5), W(5), W(7), W(11), W(13), W(31), W(41), W(61), W(151), W(331), W(1321)>>>>,
    <<U64(Dec(<<2, 3, 0, 5, 8, 4, 3, 0, 0, 9, 2, 1, 3, 6, 9, 3, 9, 6, 7>>)), 5,
      <<W(2), W(1723), W(2447), U64(Dec(<<2, 7, 3, 4, 5, 1, 6, 1, 5, 2, 4, 3>>))>>>>,
    <<U64(Dec(<<2, 3, 0, 5, 8, 4, 3, 0, 0, 9, 2, 1, 3, 6, 9, 3, 9, 7, 3>>)), 3,
      <<W(2), W(2), W(11), W(743), W(44797), W(1574487853)>>>>,
    <<U64(Dec(<<3, 8, 2, 5, 1, 2, 3, 0, 5, 6, 5, 4, 6, 4, 1, 3, 0, 5, 7>>)), 5,
      <<W(2), W(2), W(2), W(2), W(2), W(2), W(2), W(2), W(2), W(3), W(53), W(647), W(2689), W(2927), W(9227)>>>>,
    <<U64(Dec(<<1, 8, 4, 4, 6, 7, 4, 4, 0, 7, 3, 7, 0, 9, 5, 5, 1, 5, 3, 3>>)), 2,
      <<W(2), W(2), W(43), W(67), W(193), W(809383), W(10247197)>>>>,
    <<U64(Dec(<<1, 8, 4, 4, 6, 7, 4, 4, 0, 7, 3, 7, 0, 9, 5, 5, 1, 5, 5, 7>>)), 2,
      <<W(2), W(2), W(11), W(137), W(547), U64(Dec(<<5, 5, 9, 4, 4, 7, 2, 6, 1, 7, 6, 4, 1>>))>>>>>>

RECURSIVE Certified(_)
\* c = <<p, a, qs>> is a Lucas certificate of the primality of p: qs are primes
\* with product p - 1, and a has order p - 1 modulo p
LucasValid(c) ==
    /\ U64(Product(c[3], 1)) = SubW(c[1], W(1))
    /\ \A i \in 1..Len(c[3]) :
          IF FitsInt(c[3][i]) THEN IsPrimeInt(ToInt(c[3][i])) ELSE Certified(c[3][i])
    /\ PowMod(W(c[2]), SubW(c[1], W(1)), c[1]) = Big(1)
    /\ \A i \in 1..Len(c[3]) :
          PowMod(W(c[2]), Cofactor(c[3], c[3][i]), c[1]) # Big(1)

\* n has a valid certificate in PrimeCertificates
Certified(n) ==
    \E i \in 1..Len(PrimeCertificates) :
        PrimeCertificates[i][1] = n /\ LucasValid(PrimeCertificates[i])

\* n has a proper divisor in FactorBase
HasSmallFactor(n) == \E f \in FactorBase : Lt(W(f), n) /\ IsZero(Mod(n, W(f)))

\* n < 2^64 is prime: by trial division below 2^31; above, TRUE by a
\* certificate and FALSE by a divisor (defined only where one of them is known)
IsPrime(n) ==
    IF FitsInt(n) THEN IsPrimeInt(ToInt(n))
    ELSE CHOOSE b \in BOOLEAN :
            /\ b => Certified(U64(n))
            /\ ~b => (~IsOdd(n) \/ HasSmallFactor(n))

\* the primes from 3 to 331, in order
OddPrimesTo331 == SelectSeq([k \in 1..329 |-> k + 2], IsPrimeInt)

\* the numbers lo, lo + 1, ..., hi (hi - lo < 2^31)
Range(lo, hi) ==
    IF Lt(hi, lo) THEN {} ELSE {AddW(lo, W(k)) : k \in 0..ToInt(SubW(hi, lo))}

\* n - 1 = d * 2^s with d odd, as <<d, s>>, for n >= 2
RefOddPart_body(st) == IF IsOdd(st[1]) THEN st ELSE <<BigShr1(st[1]), st[2] + 1>>
RefOddPart(n) == Repeat(RefOddPart_body, <<BigSub(n, Big(1)), 0>>, 64)

\* n is a strong probable prime to base a (odd n >= 3): a mod n = 0, or
\* a^d mod n = 1, or a^(d * 2^r) mod n = n - 1 for some r in 0..s-1
StrongFermat(n, a) ==
    LET ds == RefOddPart(n)
    IN \/ IsZero(BigMod(a, n))
       \/ PowMod(a, ds[1], n) = Big(1)
       \/ \E r \in 0..(ds[2] - 1) :
             PowMod(a, BigMul(ds[1], Pow2(r)), n) = BigSub(n, Big(1))

(***************************************************************************)
(* The calls.  A run is one call of one function of the library on one     *)
(* argument, in one build of the header.                                   *)
(***************************************************************************)

\* the arguments 0..MaxSmall are tried, and the arguments of LargeInputs
MaxSmall == 48
\* a scan makes at most MaxScan primality tests
MaxScan == 12
\* the port is called on arguments below 2^MaxTsBits
MaxTsBits == 33

\* UINT32_MAX
UINT32_MAX == U32(UINT64_MAX)
\* 4294967291, the largest prime below 2^32
Prime32Max == U64(Dec(<<4, 2, 9, 4, 9, 6, 7, 2, 9, 1>>))
\* 4294967311, the smallest prime above 2^32
Prime33Min == U64(Dec(<<4, 2, 9, 4, 9, 6, 7, 3, 1, 1>>))
\* two more primes above 2^32
Prime4295368639 == U64(Dec(<<4, 2, 9, 5, 3, 6, 8, 6, 3, 9>>))
Prime4528564259 == U64(Dec(<<4, 5, 2, 8, 5, 6, 4, 2, 5, 9>>))
\* 2^61 - 1 and 2^64 - 59, the largest prime below 2^64
Mersenne61 == U64(Dec(<<2, 3, 0, 5, 8, 4, 3, 0, 0, 9, 2, 1, 3, 6, 9, 3, 9, 5, 1>>))
Prime64Max == SubW(UINT64_MAX, W(58))

LargeInputs ==
    {Breakpoint1, W(109561), Breakpoint2, Breakpoint3, SpecialPseudoprime,
     Prime32Max, UINT32_MAX, Prime33Min, Prime4295368639, Prime4528564259,
     Breakpoint5, Breakpoint6, Breakpoint7, SubW(TrialDivisionLimit, W(1)),
     Mersenne61, Breakpoint9, Prime64Max, AddW(Prime64Max, W(2)), UINT64_MAX}

Inputs == {W(v) : v \in 0..MaxSmall} \cup LargeInputs

\* the halves x_lo, x_hi tried for a modulus n
ReduceInputs(n) == {W(0), W(1), SubW(n, W(1)), UINT64_MAX}
\* the witnesses tried
SprpBases == {2, 3, 5}

Init ==
    /\ int128 \in BOOLEAN
    /\ arg \in Inputs
    /\ fn = "none"
    /\ aux = <<>>
    /\ cand = W(0)
    /\ iter = 0
    /\ ret = "none"
    /\ pc = "idle"

\* function f, called with the further arguments a, returns r
Return(f, a, r) ==
    /\ fn' = f
    /\ aux' = a
    /\ ret' = r
    /\ pc' = "done"
    /\ UNCHANGED <<int128, arg, cand, iter>>

\* function f enters its scan loop with n = c
Enter(f, c) ==
    /\ fn' = f
    /\ cand' = c
    /\ iter' = 0
    /\ pc' = "loop"
    /\ UNCHANGED <<int128, arg, aux, ret>>

\* the scan tests cand: it returns r, or goes on with n = c
Scan(returns, r, c) ==
    /\ iter' = iter + 1
    /\ cand' = c
    /\ pc' = IF returns THEN "done" ELSE "loop"
    /\ ret' = IF returns THEN r ELSE ret
    /\ UNCHANGED <<int128, fn, arg, aux>>

IsPrime32 ==
    /\ pc = "idle"
    /\ Le(arg, UINT32_MAX)
    /\ Return("smc_is_prime32", <<>>, smc_is_prime32(arg))

IsPrime64 ==
    /\ pc = "idle"
    /\ Return("smc_is_prime64", <<>>, smc_is_prime64(arg))

IsPrime64Wc ==
    /\ pc = "idle"
    /\ Return("smc_is_prime64_wc", <<>>, smc_is_prime64_wc(arg))

NextPrime32 ==
    /\ pc = "idle"
    /\ Le(arg, UINT32_MAX)
    /\ IF Le(arg, W(2)) THEN Return("smc_next_prime32", <<>>, W(2))
       ELSE IF arg = W(3) THEN Return("smc_next_prime32", <<>>, W(3))
       ELSE Enter("smc_next_prime32", IF IsOdd(arg) THEN arg ELSE U32(AddW(arg, W(1))))

\* while (!smc_is_prime32(n)) { n += 2; if (n < 2) return 0; } return n;
NextPrime32Loop ==
    /\ pc = "loop" /\ fn = "smc_next_prime32" /\ iter < MaxScan
    /\ IF smc_is_prime32(cand) THEN Scan(TRUE, cand, cand)
       ELSE LET n1 == U32(AddW(cand, W(2)))
            IN Scan(Lt(n1, W(2)), W(0), n1)

PrevPrime32 ==
    /\ pc = "idle"
    /\ Le(arg, UINT32_MAX)
    /\ IF Lt(arg, W(2)) THEN Return("smc_prev_prime32", <<>>, W(0))
       ELSE IF arg = W(2) THEN Return("smc_prev_prime32", <<>>, W(2))
       ELSE Enter("smc_prev_prime32", IF IsOdd(arg) THEN arg ELSE U32(SubW(arg, W(1))))

\* while (!smc_is_prime32(n)) { if (n < 3) return 2; n -= 2; } return n;
PrevPrime32Loop ==
    /\ pc = "loop" /\ fn = "smc_prev_prime32" /\ iter < MaxScan
    /\ IF smc_is_prime32(cand) THEN Scan(TRUE, cand, cand)
       ELSE IF Lt(cand, W(3)) THEN Scan(TRUE, W(2), cand)
       ELSE Scan(FALSE, W(0), U32(SubW(cand, W(2))))

NextPrime64 ==
    /\ pc = "idle"
    /\ IF Le(arg, W(2)) THEN Return("smc_next_prime64", <<>>, W(2))
       ELSE IF arg = W(3) THEN Return("smc_next_prime64", <<>>, W(3))
       ELSE Enter("smc_next_prime64", IF IsOdd(arg) THEN arg ELSE AddW(arg, W(1)))

\* while (!smc_is_prime64(n)) { n += 2; if (n < 2) return 0; } return n;
NextPrime64Loop ==
    /\ pc = "loop" /\ fn = "smc_next_prime64" /\ iter < MaxScan
    /\ IF smc_is_prime64(cand) THEN Scan(TRUE, cand, cand)
       ELSE LET n1 == AddW(cand, W(2))
            IN Scan(Lt(n1, W(2)), W(0), n1)

PrevPrime64 ==
    /\ pc = "idle"
    /\ IF Lt(arg, W(2)) THEN Return("smc_prev_prime64", <<>>, W(0))
       ELSE IF arg = W(2) THEN Return("smc_prev_prime64", <<>>, W(2))
       ELSE Enter("smc_prev_prime64", IF IsOdd(arg) THEN arg ELSE SubW(arg, W(1)))

\* while (!smc_is_prime64(n)) { if (n < 3) return 2; n -= 2; } return n;
PrevPrime64Loop ==
    /\ pc = "loop" /\ fn = "smc_prev_prime64" /\ iter < MaxScan
    /\ IF smc_is_prime64(cand) THEN Scan(TRUE, cand, cand)
       ELSE IF Lt(cand, W(3)) THEN Scan(TRUE, W(2), cand)
       ELSE Scan(FALSE, W(0), SubW(cand, W(2)))

\* smc_mont_inv64(n) for an odd n
MontInv64 ==
    /\ pc = "idle"
    /\ IsOdd(arg)
    /\ Return("smc_mont_inv64", <<>>, smc_mont_inv64(arg))

\* smc_mont_reduce64(x_lo, x_hi, n, smc_mont_inv64(n)) for an odd n >= 3, x_hi < n
MontReduce64 ==
    /\ pc = "idle"
    /\ IsOdd(arg) /\ Le(W(3), arg)
    /\ \E x_lo \in ReduceInputs(arg), x_hi \in ReduceInputs(arg) :
          /\ Lt(x_hi, arg)
          /\ Return("smc_mont_reduce64", <<x_lo, x_hi>>,
                    smc_mont_reduce64(x_lo, x_hi, arg, smc_mont_inv64(arg)))

\* smc_mont_sprp64(n, a, smc_mont_inv64(n), smc_mont_one64(n)) for an odd n >= 3
MontSprp64 ==
    /\ pc = "idle"
    /\ IsOdd(arg) /\ Le(W(3), arg)
    /\ \E a \in SprpBases :
          Return("smc_mont_sprp64", <<W(a)>>,
                 smc_mont_sprp64(arg, W(a), smc_mont_inv64(arg), smc_mont_one64(arg)))

\* smc_mont_mul64(a, b, n, smc_mont_inv64(n)) for an odd n >= 3; lo and hi,
\* the halves of its product, are kept with a and b
MontMul64 ==
    /\ pc = "idle"
    /\ IsOdd(arg) /\ Le(W(3), arg)
    /\ \E a \in ReduceInputs(arg), b \in ReduceInputs(arg) :
          Return("smc_mont_mul64",
                 <<a, b, Product64(a, b)[1], Product64(a, b)[2]>>,
                 smc_mont_mul64(a, b, arg, smc_mont_inv64(arg)))

\* smc_to_mont64(x, n) for an odd n >= 3
ToMont64 ==
    /\ pc = "idle"
    /\ IsOdd(arg) /\ Le(W(3), arg)
    /\ \E x \in ReduceInputs(arg) :
          Return("smc_to_mont64", <<x>>, smc_to_mont64(x, arg))

\* one pass of the trial-division loop of smc_is_prime64: prod for index i,
\* for an odd n with 9 <= n < 55730344633563600
TrialDivisionProd ==
    /\ pc = "idle"
    /\ IsOdd(arg) /\ Le(W(9), arg) /\ Lt(arg, TrialDivisionLimit)
    /\ \E i \in 0..(SMC_NUM_PRIME_INV64 - 1) :
          Return("trial_division", <<i>>, TrialProduct(arg, i))

\* the port is called on the BigInt of arg
TsArg == Strip(arg)
TsInRange == Lt(arg, Pow2(MaxTsBits))

TsIsPrime64 ==
    /\ pc = "idle"
    /\ TsInRange
    /\ Return("isPrime64", <<>>, isPrime64(TsArg))

\* montReduce64(xLo, xHi, n, montInv64(n)) for an odd n >= 3, xHi < n
TsMontReduce64 ==
    /\ pc = "idle"
    /\ TsInRange
    /\ IsOdd(arg) /\ Le(W(3), arg)
    /\ \E xLo \in ReduceInputs(arg), xHi \in ReduceInputs(arg) :
          /\ Lt(xHi, arg)
          /\ Return("montReduce64", <<xLo, xHi>>,
                    montReduce64(Strip(xLo), Strip(xHi), TsArg, montInv64(TsArg)))

TsPrevPrime64 ==
    /\ pc = "idle"
    /\ TsInRange
    /\ IF Lt(TsArg, Big(2)) THEN Return("prevPrime64", <<>>, Big(0))
       ELSE IF TsArg = Big(2) THEN Return("prevPrime64", <<>>, Big(2))
       ELSE Enter("prevPrime64", IF IsOdd(arg) THEN TsArg ELSE BigSub(TsArg, Big(1)))

\* while (!isPrime64(bn)) { if (bn < 3n) return 2n; bn -= 2n; } return bn;
TsPrevPrime64Loop ==
    /\ pc = "loop" /\ fn = "prevPrime64" /\ iter < MaxScan
    /\ IF isPrime64(cand) THEN Scan(TRUE, cand, cand)
       ELSE IF Lt(cand, Big(3)) THEN Scan(TRUE, Big(2), cand)
       ELSE Scan(FALSE, Big(0), BigSub(cand, Big(2)))

Next ==
    \/ IsPrime32
    \/ IsPrime64
    \/ IsPrime64Wc
    \/ NextPrime32
    \/ NextPrime32Loop
    \/ PrevPrime32
    \/ PrevPrime32Loop
    \/ NextPrime64
    \/ NextPrime64Loop
    \/ PrevPrime64
    \/ PrevPrime64Loop
    \/ MontInv64
    \/ MontReduce64
    \/ MontSprp64
    \/ MontMul64
    \/ ToMont64
    \/ TrialDivisionProd
    \/ TsIsPrime64
    \/ TsMontReduce64
    \/ TsPrevPrime64
    \/ TsPrevPrime64Loop

Spec == Init /\ [][Next]_vars

(***************************************************************************)
(* Properties                                                              *)
(***************************************************************************)

\* a call of f has returned
Done(f) == pc = "done" /\ fn = f

\* C1: smc_is_prime64(n) is true exactly when n is prime, in every build
C1_IsPrime64Exact == Done("smc_is_prime64") => (ret = IsPrime(arg))

\* C2: for n <= 2^32 - 1, smc_is_prime32(n) = smc_is_prime64(n)
C2_Agree32And64 == Done("smc_is_prime32") => (ret = smc_is_prime64(arg))
\* C2 on the largest prime below 2^32: both tests have answered true
C2_Witness ==
    Done("smc_is_prime32") /\ arg = Prime32Max /\ ret = TRUE /\ smc_is_prime64(arg)

\* C3: smc_is_prime64_wc(n) = smc_is_prime64(n) for every n, in every build
C3_WorstCaseAgrees == Done("smc_is_prime64_wc") => (ret = smc_is_prime64(arg))

\* the largest value of the width of the scan f
WidthMax(f) == IF f \in {"smc_next_prime32", "smc_prev_prime32"} THEN UINT32_MAX ELSE UINT64_MAX

\* C4: next_prime(n) is the smallest prime p with n <= p <= 2^w - 1, and 0
\* exactly when there is none
C4_NextPrimeSmallest ==
    (pc = "done" /\ fn \in {"smc_next_prime32", "smc_next_prime64"}) =>
        IF ret = W(0)
        THEN \A m \in Range(arg, WidthMax(fn)) : ~IsPrime(m)
        ELSE /\ Le(arg, ret) /\ Le(ret, WidthMax(fn))
             /\ IsPrime(ret)
             /\ \A m \in Range(arg, SubW(ret, W(1))) : ~IsPrime(m)

\* C5: prev_prime(n) is 0 exactly when n < 2, and otherwise the largest
\* prime p <= n (C header and TypeScript port)
C5_PrevPrimeLargest ==
    (pc = "done" /\ fn \in {"smc_prev_prime32", "smc_prev_prime64", "prevPrime64"}) =>
        /\ IsZero(ret) <=> Lt(arg, W(2))
        /\ Le(W(2), arg) =>
              /\ Le(ret, arg)
              /\ IsPrime(U64(ret))
              /\ \A m \in Range(AddW(U64(ret), W(1)), arg) : ~IsPrime(m)

\* C6: smc_is_prime32, smc_is_prime64 and smc_is_prime64_wc return false for
\* 3215031751
C6_SpecialPseudoprimeRejected ==
    (pc = "done" /\ arg = SpecialPseudoprime
        /\ fn \in {"smc_is_prime32", "smc_is_prime64", "smc_is_prime64_wc"})
    => (ret = FALSE)
\* C6: the worst-case entry point has answered false for 3215031751
C6_Witness == Done("smc_is_prime64_wc") /\ arg = SpecialPseudoprime /\ ret = FALSE

\* C7: the 64-bit test (C header and TypeScript port) returns true for every
\* prime n >= 2^32
C7_LargePrimesAccepted ==
    (pc = "done" /\ fn \in {"smc_is_prime64", "isPrime64"}
        /\ Lt(UINT32_MAX, arg) /\ IsPrime(arg))
    => (ret = TRUE)

\* C8: n * smc_mont_inv64(n) mod 2^64 = 1 for every odd n
C8_InverseMod2_64 == Done("smc_mont_inv64") => (MulW(arg, ret) = W(1))
\* C8 on the odd n = 2^64 - 59
C8_Witness == Done("smc_mont_inv64") /\ arg = Prime64Max /\ MulW(arg, ret) = W(1)

\* C9: Montgomery reduction of (x_lo, x_hi), x_hi < n, returns r with
\* 0 <= r < n and r * 2^64 = x_hi * 2^64 + x_lo modulo n (C and TypeScript)
C9_ReduceInRangeAndCongruent ==
    (pc = "done" /\ fn \in {"smc_mont_reduce64", "montReduce64"}) =>
        /\ Lt(ret, arg)
        /\ BigMod(BigMul(ret, Pow2(64)), arg)
              = BigMod(BigAdd(BigMul(aux[2], Pow2(64)), aux[1]), arg)

\* C10: smc_mont_sprp64(n, a, n_inv, one) is the strong-Fermat test of n to
\* base a over plain residues, in every build
C10_SprpIsStrongFermat ==
    Done("smc_mont_sprp64") => (ret = StrongFermat(Strip(arg), Strip(aux[1])))
\* C11: for an odd n with 9 <= n < 55730344633563600 and the i-th prime p_i
\* from 3 to 331, prod = n * SMC_PRIME_INV64[i] mod 2^64 is 1 exactly when
\* n = p_i and is below n exactly when p_i divides n; the trial-division
\* loop returns true only for a table prime, false only for an n with a
\* proper divisor p_i, and an n < 109561 that leaves the loop is prime
C11_TrialDivisionByInverses ==
    /\ Done("trial_division") =>
          LET p == W(OddPrimesTo331[aux[1] + 1])
          IN /\ (ret = W(1)) <=> (arg = p)
             /\ Lt(ret, arg) <=> IsZero(ModW(arg, p))
    /\ (Done("smc_is_prime64") /\ IsOdd(arg) /\ Le(W(9), arg)
           /\ Lt(arg, TrialDivisionLimit)) =>
          LET td == TrialDivision(arg)
          IN /\ (td[2] /\ td[3]) =>
                   \E i \in 1..SMC_NUM_PRIME_INV64 : arg = W(OddPrimesTo331[i])
             /\ (td[2] /\ ~td[3]) =>
                   \E i \in 1..SMC_NUM_PRIME_INV64 :
                       /\ Lt(W(OddPrimesTo331[i]), arg)
                       /\ IsZero(ModW(arg, W(OddPrimesTo331[i])))
             /\ (~td[2] /\ Lt(arg, W(109561))) => IsPrime(arg)
\* C11 on n = 109561 = 331 * 331 and the last entry: prod = 331 < n
C11_Witness ==
    Done("trial_division") /\ arg = W(109561) /\ aux = <<65>> /\ ret = W(331)
\* C12: every early 'return true' of the witness ladder is sound: an odd
\* composite n that reaches the ladder and is below the bound of a rung
\* fails the strong-Fermat test for a base of that rung or of one before it
C12_EarlyReturnsSound ==
    (Done("smc_is_prime64") /\ IsOdd(arg) /\ ~EarlyReturn(arg)[1] /\ ~IsPrime(arg)) =>
        \A k \in 1..Len(LadderBound) :
            Lt(arg, LadderBound[k]) =>
                \E j \in 1..k : ~StrongFermat(Strip(arg), Big(LadderBase[j]))
\* C12 on 1373653 = 829 * 1657, which passes the bases 2 and 3, reaches
\* the rung of base 5 and is found composite
C12_Witness ==
    /\ Done("smc_is_prime64") /\ arg = Breakpoint2 /\ ret = FALSE
    /\ ~EarlyReturn(arg)[1]
    /\ StrongFermat(Strip(arg), Big(2)) /\ StrongFermat(Strip(arg), Big(3))
\* C13: the fallback of smc_mont_mul64 (four 32x32 partial products) gives
\* the low and high halves of the exact 128-bit product a * b, in every build
C13_FallbackProductExact ==
    Done("smc_mont_mul64") =>
        /\ aux[3] = U64(MulN(aux[1], aux[2]))
        /\ aux[4] = U64(ShiftRight(MulN(aux[1], aux[2]), 64))

\* C14: smc_to_mont64(x, n) = (x * 2^64) mod n for every odd n >= 3, on the
\* 128-bit path and on the fallback loop
C14_ToMontExact ==
    Done("smc_to_mont64") =>
        (Strip(ret) = BigMod(BigMul(Strip(aux[1]), Pow2(64)), Strip(arg)))

\* the candidate with which the scan of arg enters its loop
ScanEntry(f) ==
    IF IsOdd(arg) THEN arg
    ELSE IF f \in {"smc_next_prime32", "smc_next_prime64"} THEN AddW(arg, W(1))
    ELSE SubW(arg, W(1))

\* C15 (candidates): in the loop of a scan the candidate is odd; in
\* next_prime it is the entry value plus 2 for each pass, and has not
\* wrapped; in prev_prime it is the entry value minus 2 for each pass and
\* is at least 3, so that 'if (n < 3) return 2' is not taken
C15_ScanCandidates ==
    (pc = "loop" /\ fn \in {"smc_next_prime32", "smc_next_prime64",
                            "smc_prev_prime32", "smc_prev_prime64"}) =>
        /\ IsOdd(cand)
        /\ fn \in {"smc_next_prime32", "smc_next_prime64"} =>
              /\ Strip(cand) = BigAdd(ScanEntry(fn), Big(2 * iter))
              /\ Le(cand, WidthMax(fn))
        /\ fn \in {"smc_prev_prime32", "smc_prev_prime64"} =>
              /\ BigAdd(cand, Big(2 * iter)) = Strip(ScanEntry(fn))
              /\ Le(W(3), cand)

\* C15: the scans test only odd candidates that move by 2, and end at a
\* prime: next_prime at a prime or, returning 0, when the candidate has
\* wrapped to a value below 2; prev_prime at a prime that is at least 3
C15_ScansEndAtPrime ==
    /\ C15_ScanCandidates
    /\ (pc = "done" /\ iter > 0 /\ fn \in {"smc_next_prime32", "smc_next_prime64"}) =>
          IF Lt(cand, W(2)) THEN ret = W(0) ELSE ret = cand /\ IsPrime(ret)
    /\ (pc = "done" /\ iter > 0 /\ fn \in {"smc_prev_prime32", "smc_prev_prime64"}) =>
          ret = cand /\ Le(W(3), ret) /\ IsPrime(ret)
====
